---- MODULE Spec2Model ----
(***************************************************************************)
(* Model of scripts/ci_setup.py: the CI bootstrap script that installs the *)
(* toolchain, resolves version/commit metadata and emits the machine-setup *)
(* script.                                                                 *)
(*                                                                         *)
(* Python strings are modelled as sequences of atoms (TLA+ strings); an    *)
(* atom is a chunk of characters that no operation of the script splits.   *)
(* The separators the script looks at ("-", "/", ";", "\n", "\r", the      *)
(* double quote) are atoms of their own.                                   *)
(***************************************************************************)
EXTENDS Naturals, Sequences, FiniteSets

VARIABLES
    args,                       \* the parsed argument record (line 161)
    platform,                   \* sys.platform
    registry,                   \* the monikers the framework registry resolves args.frameworks to
    pc,                         \* position of __main
    target_framework_monikers,  \* line 170
    architecture,               \* line 178
    perfHash,                   \* line 212
    remove_dotnet,              \* line 198, 217
    idx,                        \* position of the for loop of line 214
    out_file,                   \* the file at args.output_file
    calls,                      \* the external operations of this run, in order
    run,                        \* number of the current invocation of the script
    start_file                  \* out_file as it was when this invocation began

vars == <<args, platform, registry, pc, target_framework_monikers, architecture,
          perfHash, remove_dotnet, idx, out_file, calls, run, start_file>>

\* ------------------------------------------------------------------ bounds
MaxFrameworks == 2
MaxConfigs == 2
MaxRuns == 2
\* an I/O error during emission leaves at most this many of the texts written
MaxPartialWrites == 1

\* ------------------------------------------------------------- string helpers
None == <<"<None>">>

RECURSIVE Concat(_)
Concat(ss) == IF ss = <<>> THEN <<>> ELSE Head(ss) \o Concat(Tail(ss))

\* sep.join(parts)
RECURSIVE Join(_, _)
Join(sep, parts) ==
    IF parts = <<>> THEN <<>>
    ELSE IF Len(parts) = 1 THEN Head(parts)
    ELSE Head(parts) \o sep \o Join(sep, Tail(parts))

\* s.replace(old, new) for a one-atom old
Replace(s, old, new) == [k \in 1..Len(s) |-> IF s[k] = old THEN new ELSE s[k]]

\* s.startswith(prefix)
StartsWith(s, prefix) ==
    /\ Len(prefix) <= Len(s)
    /\ SubSeq(s, 1, Len(prefix)) = prefix

\* s.splitlines(): lines end at "\n", "\r" or "\r\n"; no trailing empty line
RECURSIVE SplitFrom(_, _)
SplitFrom(s, cur) ==
    IF s = <<>> THEN (IF cur = <<>> THEN <<>> ELSE <<cur>>)
    ELSE IF Head(s) = "\r" /\ Len(s) >= 2 /\ s[2] = "\n"
        THEN <<cur>> \o SplitFrom(Tail(Tail(s)), <<>>)
    ELSE IF Head(s) \in {"\n", "\r"}
        THEN <<cur>> \o SplitFrom(Tail(s), <<>>)
    ELSE SplitFrom(Tail(s), Append(cur, Head(s)))

SplitLines(s) == SplitFrom(s, <<>>)

\* ------------------------------------------------------------------ inputs
CorePrefix == <<"netcoreapp">>
NetCoreApp30 == <<"netcoreapp", "3.0">>
NetCoreApp31 == <<"netcoreapp", "3.1">>
NetCoreApp50 == <<"netcoreapp", "5.0">>
Net461 == <<"net461">>
Monikers == {NetCoreApp30, NetCoreApp31, NetCoreApp50, Net461}

Architectures == {"x64", "arm64"}
Platforms == {"win32", "linux"}

ConfigTokens == {<<"a=1">>, <<"b=2">>}
CommitShas == {None, <<"c0ffee">>}
Repositories == {None, <<"https:", "/", "/", "github.com", "/", "dotnet", "-", "coreclr">>}
Branches == {None, <<"mybranch">>}

SeqsUpTo(S, lo, hi) == UNION {[1..n -> S] : n \in lo..hi}

\* what FrameworkAction.get_target_framework_monikers can return: the requested
\* frameworks as a list of distinct monikers, at least one (line 170)
MonikerLists ==
    {s \in SeqsUpTo(Monikers, 1, MaxFrameworks) :
        \A i, j \in 1..Len(s) : i # j => s[i] # s[j]}

\* the records parse_args can return (lines 55-144, defaults included)
ArgSets ==
    [commit_sha: CommitShas,
     repository: Repositories,
     branch: Branches,
     queue: {<<"testQueue">>},
     build_number: {<<"1234.1">>},
     locale: {<<"en-US">>},
     perf_hash: {<<"testSha">>},
     get_perf_hash: BOOLEAN,
     architecture: Architectures,
     build_configs: SeqsUpTo(ConfigTokens, 0, MaxConfigs)]

NoFile == [exists |-> FALSE, content |-> <<>>]
StaleFile == [exists |-> TRUE, content |-> <<"stale", "\n">>]

\* ------------------------------------------------------- collaborator answers
\* check_output(['git', 'rev-parse', 'HEAD'])
GitRevParseHead == <<"1a2b3c", "\n">>
\* micro_benchmarks.FrameworkAction.get_target_framework_moniker
GetTargetFrameworkMoniker(framework) == <<"tfm:">> \o framework
\* dotnet.get_dotnet_version
GetDotnetVersion(tfm) == <<"version:">> \o tfm
\* dotnet.get_dotnet_sdk
GetDotnetSdk(tfm) == <<"sdkcommit:">> \o tfm
\* dotnet.get_commit_date
GetCommitDate(tfm, sha, url) == <<"date:">> \o sha
\* micro_benchmarks.FrameworkAction.get_branch
GetBranch(tfm) == <<"branch:">> \o tfm
\* dotnet.get_repository
GetRepository(url) == << <<"owner:">> \o url, <<"name:">> \o url >>

\* ------------------------------------------------- pure parts of __main
\* variant: only the case "commit_sha without repository" is rejected
InvalidPair_OneSided(a) == a.commit_sha # None /\ a.repository = None

\* line 167
InvalidPair(a) == ~((a.commit_sha = None) = (a.repository = None))

\* variant: no x64 substitution for arm64
InstallArchitecture_Requested(a) == a.architecture

\* line 178
InstallArchitecture(a) == IF a.architecture = "arm64" THEN "x64" ELSE a.architecture

\* line 192
RepoUrl(a) == IF a.repository = None THEN None ELSE Replace(a.repository, "-", "/")

\* line 194; applied to a (name, value) pair
VariableFormat(plat, name, value) ==
    IF plat = "win32"
    THEN <<"set ", name, "=">> \o value \o <<"\n">>
    ELSE <<"export ", name, "=">> \o value \o <<"\n">>

\* line 195
OwnerRepo(a) ==
    IF a.repository = None THEN << <<"dotnet">>, <<"core-sdk">> >>
    ELSE GetRepository(RepoUrl(a))

\* variant: the joined tokens are quoted on every platform
ConfigString_AlwaysQuoted(plat, a) == <<"\"">> \o Join(<<";">>, a.build_configs) \o <<"\"">>

\* line 196
ConfigString(plat, a) ==
    IF plat = "win32"
    THEN Join(<<";">>, a.build_configs)
    ELSE <<"\"">> \o Join(<<";">>, a.build_configs) \o <<"\"">>

\* lines 205-210
DecodedOutput(output) == Concat(SplitLines(output))

\* variant: the two branches of the conditional swapped
PerfHash_Swapped(a, output) == IF a.get_perf_hash THEN a.perf_hash ELSE DecodedOutput(output)

\* line 212
PerfHash(a, output) == IF a.get_perf_hash THEN DecodedOutput(output) ELSE a.perf_hash

\* line 215
IsCore(framework) == StartsWith(framework, CorePrefix)

\* variant: netcoreapp5.0 forgotten
IsLegacy_Only30(framework) == framework = NetCoreApp30

\* line 216
IsLegacy(framework) == framework = NetCoreApp30 \/ framework = NetCoreApp50

\* variant: the SDK's commit is used whatever the arguments say
CommitSha_AlwaysSdk(a, tfm) == GetDotnetSdk(tfm)

\* line 220
CommitSha(a, tfm) == IF a.commit_sha = None THEN GetDotnetSdk(tfm) ELSE a.commit_sha

\* line 223
Branch(a, tfm) == IF a.branch = None \/ a.branch = <<>> THEN GetBranch(tfm) ELSE a.branch

\* lines 228-240: the texts written for a core moniker, one per write call
CoreWrites(plat, a, hash, framework) ==
    LET tfm == GetTargetFrameworkMoniker(framework)
        sha == CommitSha(a, tfm)
    IN  << VariableFormat(plat, "PERFLAB_INLAB", <<"1">>),
           VariableFormat(plat, "PERFLAB_REPO", Join(<<"/">>, OwnerRepo(a))),
           VariableFormat(plat, "PERFLAB_BRANCH", Branch(a, tfm)),
           VariableFormat(plat, "PERFLAB_PERFHASH", hash),
           VariableFormat(plat, "PERFLAB_HASH", sha),
           VariableFormat(plat, "PERFLAB_QUEUE", a.queue),
           VariableFormat(plat, "PERFLAB_BUILDNUM", a.build_number),
           VariableFormat(plat, "PERFLAB_BUILDARCH", <<a.architecture>>),
           VariableFormat(plat, "PERFLAB_LOCALE", a.locale),
           VariableFormat(plat, "PERFLAB_BUILDTIMESTAMP", GetCommitDate(tfm, sha, RepoUrl(a))),
           VariableFormat(plat, "PERFLAB_CONFIGS", ConfigString(plat, a)),
           VariableFormat(plat, "DOTNET_VERSION", GetDotnetVersion(tfm)),
           VariableFormat(plat, "PERFLAB_TARGET_FRAMEWORKS", framework) >>

\* variant: the lab marker of the core branch and its version line copied over
ReducedWrites_Copied(plat, framework) ==
    << VariableFormat(plat, "PERFLAB_INLAB", <<"1">>),
       VariableFormat(plat, "DOTNET_VERSION", GetDotnetVersion(framework)),
       VariableFormat(plat, "PERFLAB_TARGET_FRAMEWORKS", framework) >>

\* lines 244-245: the texts written for any other moniker
ReducedWrites(plat, framework) ==
    << VariableFormat(plat, "PERFLAB_INLAB", <<"0">>),
       VariableFormat(plat, "PERFLAB_TARGET_FRAMEWORKS", framework) >>

\* variant: open(path, 'a'), which keeps what the file holds
OpenAppend(file) == [exists |-> TRUE, content |-> file.content]

\* open(path, 'w'): the file exists and is empty
OpenTruncate(file) == [exists |-> TRUE, content |-> <<>>]

\* out_file.write(text) for the first n texts of writes
WriteAll(file, writes, n) ==
    [file EXCEPT !.content = file.content \o Concat(SubSeq(writes, 1, n))]

\* one entry of the log of operations: what was called, and for what
Call(op, arg) == [op |-> op, arg |-> arg]

\* lines 218-223: the queries of one core iteration, in call order
ResolveCalls(a, framework) ==
    LET tfm == GetTargetFrameworkMoniker(framework)
    IN  << Call("get_target_framework_moniker", framework),
           Call("get_dotnet_version", tfm) >>
        \o (IF a.commit_sha = None THEN << Call("get_dotnet_sdk", tfm) >> ELSE <<>>)
        \o << Call("get_commit_date", tfm) >>
        \o (IF a.branch = None \/ a.branch = <<>> THEN << Call("get_branch", tfm) >> ELSE <<>>)

\* the queries that run an external process and so can fail
CanFail(call) == call.op \in {"get_dotnet_version", "get_dotnet_sdk", "get_commit_date"}

Raise(stage) == Call("raise", <<stage>>)

\* line 249
ShouldRemove(plat, flag) == plat # "win32" /\ flag

\* ------------------------------------------------------------ state machine
Init ==
    /\ args \in ArgSets
    /\ platform \in Platforms
    /\ registry \in MonikerLists
    /\ out_file \in {NoFile, StaleFile}
    /\ start_file = out_file
    /\ pc = "validate"
    /\ target_framework_monikers = <<>>
    /\ architecture = "unset"
    /\ perfHash = <<>>
    /\ remove_dotnet = FALSE
    /\ idx = 0
    /\ calls = <<>>
    /\ run = 1

\* an exception leaves __main: nothing after the raising statement runs
Abort(events, stage) ==
    /\ pc' = "failed"
    /\ calls' = calls \o events \o <<Raise(stage)>>

\* lines 160-178: argument validation, moniker resolution, architecture choice
Validate ==
    /\ pc = "validate"
    /\ IF InvalidPair(args)
       THEN /\ Abort(<<Call("validate", <<>>)>>, "validate")
            /\ UNCHANGED <<target_framework_monikers, architecture>>
       ELSE /\ pc' = "install"
            /\ calls' = Append(calls, Call("validate", <<>>))
            /\ target_framework_monikers' = registry
            /\ architecture' = InstallArchitecture(args)
    /\ UNCHANGED <<args, platform, registry, perfHash, remove_dotnet, idx, out_file,
                   run, start_file>>

\* variant: the installer's failure is not propagated
Install_FailureIgnored ==
    /\ pc = "install"
    /\ pc' = "info"
    /\ \/ calls' = Append(calls, Call("install", <<architecture>>))
       \/ calls' = calls \o <<Call("install", <<architecture>>), Call("raise", <<"install">>)>>
    /\ UNCHANGED <<args, platform, registry, target_framework_monikers, architecture,
                   perfHash, remove_dotnet, idx, out_file, run, start_file>>

\* lines 180-185: init_tools -> dotnet.install
Install ==
    /\ pc = "install"
    /\ \/ /\ pc' = "info"
          /\ calls' = Append(calls, Call("install", <<architecture>>))
       \/ Abort(<<Call("install", <<architecture>>)>>, "install")
    /\ UNCHANGED <<args, platform, registry, target_framework_monikers, architecture,
                   perfHash, remove_dotnet, idx, out_file, run, start_file>>

\* line 188: dotnet.info
Info ==
    /\ pc = "info"
    /\ \/ /\ pc' = "repository"
          /\ calls' = Append(calls, Call("info", <<>>))
       \/ Abort(<<Call("info", <<>>)>>, "introspect")
    /\ UNCHANGED <<args, platform, registry, target_framework_monikers, architecture,
                   perfHash, remove_dotnet, idx, out_file, run, start_file>>

\* lines 192-198: repository url, owner and name, config string, remove_dotnet
Repository ==
    /\ pc = "repository"
    /\ IF args.repository = None
       THEN /\ pc' = "perfhash"
            /\ calls' = calls
       ELSE \/ /\ pc' = "perfhash"
               /\ calls' = Append(calls, Call("get_repository", RepoUrl(args)))
            \/ Abort(<<Call("get_repository", RepoUrl(args))>>, "resolve")
    /\ remove_dotnet' = FALSE
    /\ UNCHANGED <<args, platform, registry, target_framework_monikers, architecture,
                   perfHash, idx, out_file, run, start_file>>

\* lines 200-212: git rev-parse HEAD in the repository root, then perfHash
RevParse ==
    /\ pc = "perfhash"
    /\ \/ /\ pc' = "loop"
          /\ calls' = Append(calls, Call("git_rev_parse_head", <<>>))
          /\ perfHash' = PerfHash(args, GitRevParseHead)
          /\ idx' = 1
       \/ /\ Abort(<<Call("git_rev_parse_head", <<>>)>>, "resolve")
          /\ UNCHANGED <<perfHash, idx>>
    /\ UNCHANGED <<args, platform, registry, target_framework_monikers, architecture,
                   remove_dotnet, out_file, run, start_file>>

\* lines 227-240 and 243-245: open(args.output_file, 'w') and the writes
Emit(events, writes) ==
    \/ /\ Abort(Append(events, Call("open", <<>>)), "emit")
       /\ UNCHANGED <<out_file, idx>>
    \/ \E n \in 0..MaxPartialWrites :
          /\ n < Len(writes)
          /\ Abort(Append(events, Call("open", <<>>)), "emit")
          /\ out_file' = WriteAll(OpenTruncate(out_file), writes, n)
          /\ UNCHANGED idx
    \/ /\ pc' = "loop"
       /\ calls' = calls \o events \o <<Call("open", <<>>), Call("close", <<>>)>>
       /\ out_file' = WriteAll(OpenTruncate(out_file), writes, Len(writes))
       /\ idx' = idx + 1

\* lines 216-240: one iteration of the loop for a core moniker
IterateCore(framework) ==
    /\ remove_dotnet' = (remove_dotnet \/ IsLegacy(framework))
    /\ LET queries == ResolveCalls(args, framework)
       IN  \/ \E k \in 1..Len(queries) :
                 /\ CanFail(queries[k])
                 /\ Abort(SubSeq(queries, 1, k), "resolve")
                 /\ UNCHANGED <<out_file, idx>>
           \/ Emit(queries, CoreWrites(platform, args, perfHash, framework))

\* lines 242-245: one iteration of the loop for any other moniker
IterateReduced(framework) ==
    /\ remove_dotnet' = remove_dotnet
    /\ Emit(<<>>, ReducedWrites(platform, framework))

\* lines 214-245: the body of the for loop, for the moniker at idx
Iterate ==
    /\ pc = "loop"
    /\ idx <= Len(target_framework_monikers)
    /\ LET framework == target_framework_monikers[idx]
       IN  IF IsCore(framework) THEN IterateCore(framework) ELSE IterateReduced(framework)
    /\ UNCHANGED <<args, platform, registry, target_framework_monikers, architecture,
                   perfHash, run, start_file>>

\* lines 247-250: the loop is over; remove the toolchain if needed and return
Cleanup ==
    /\ pc = "loop"
    /\ idx > Len(target_framework_monikers)
    /\ IF ShouldRemove(platform, remove_dotnet)
       THEN \/ /\ pc' = "done"
               /\ calls' = Append(calls, Call("remove_dotnet", <<architecture>>))
            \/ Abort(<<Call("remove_dotnet", <<architecture>>)>>, "cleanup")
       ELSE /\ pc' = "done"
            /\ calls' = calls
    /\ UNCHANGED <<args, platform, registry, target_framework_monikers, architecture,
                   perfHash, remove_dotnet, idx, out_file, run, start_file>>

\* lines 253-254: the script is invoked again with the same arguments, on the
\* same platform, against the same collaborators
Rerun ==
    /\ pc = "done"
    /\ run < MaxRuns
    /\ run' = run + 1
    /\ start_file' = out_file
    /\ pc' = "validate"
    /\ target_framework_monikers' = <<>>
    /\ architecture' = "unset"
    /\ perfHash' = <<>>
    /\ remove_dotnet' = FALSE
    /\ idx' = 0
    /\ calls' = <<>>
    /\ UNCHANGED <<args, platform, registry, out_file>>

\* one invocation of the script
Next ==
    \/ Validate
    \/ Install
    \/ Info
    \/ Repository
    \/ RevParse
    \/ Iterate
    \/ Cleanup

Spec == Init /\ [][Next]_vars

\* up to MaxRuns invocations, one after the other
NextRerun ==
    \/ Next
    \/ Rerun

SpecRerun == Init /\ [][NextRerun]_vars

\* =================================================================== claims
\* Reading the output file back: where its lines start, and the assignment
\* (keyword, name, "=", value) on each line.
Keywords == {"set ", "export "}
Min(S) == CHOOSE x \in S : \A y \in S : x <= y
LineStarts(f) ==
    {k \in 1..Len(f.content) : k = 1 \/ f.content[k - 1] = "\n"}
VarStarts(f) ==
    {k \in 1..Len(f.content) :
        /\ f.content[k] \in Keywords
        /\ (k = 1 \/ f.content[k - 1] = "\n")
        /\ k + 2 <= Len(f.content)
        /\ f.content[k + 2] = "="}
VarStartsOf(f, name) ==
    {k \in 1..Len(f.content) :
        /\ f.content[k] \in Keywords
        /\ (k = 1 \/ f.content[k - 1] = "\n")
        /\ k + 2 <= Len(f.content)
        /\ f.content[k + 1] = name
        /\ f.content[k + 2] = "="}
LineEnd(f, k) ==
    Min({j \in k..Len(f.content) : f.content[j] = "\n"} \cup {Len(f.content) + 1})

OnlyAssignments(f) == LineStarts(f) = VarStarts(f)
NamesIn(f) == {f.content[k + 1] : k \in VarStarts(f)}
ValuesOf(f, name) ==
    {SubSeq(f.content, k + 3, LineEnd(f, k) - 1) : k \in VarStartsOf(f, name)}
Occurrences(f, name) == Cardinality(VarStartsOf(f, name))
KeywordsIn(f) == {f.content[k] : k \in VarStarts(f)}
\* the file is exactly one assignment to each of the names, and nothing else
HoldsExactly(f, names) ==
    /\ OnlyAssignments(f)
    /\ NamesIn(f) = names
    /\ Cardinality(VarStarts(f)) = Cardinality(names)

CoreNames ==
    {"PERFLAB_INLAB", "PERFLAB_REPO", "PERFLAB_BRANCH", "PERFLAB_PERFHASH", "PERFLAB_HASH",
     "PERFLAB_QUEUE", "PERFLAB_BUILDNUM", "PERFLAB_BUILDARCH", "PERFLAB_LOCALE",
     "PERFLAB_BUILDTIMESTAMP", "PERFLAB_CONFIGS", "DOTNET_VERSION",
     "PERFLAB_TARGET_FRAMEWORKS"}
ReducedNames == {"PERFLAB_INLAB", "PERFLAB_TARGET_FRAMEWORKS"}

OpsCalled == {calls[k].op : k \in 1..Len(calls)}
Raised(stage) == \E k \in 1..Len(calls) : calls[k] = Raise(stage)
LastCall == calls[Len(calls)]
CommitSet == args.commit_sha # None
RepositorySet == args.repository # None
SideEffectOps ==
    {"install", "info", "get_repository", "git_rev_parse_head", "get_target_framework_moniker",
     "get_dotnet_version", "get_dotnet_sdk", "get_commit_date", "get_branch", "open", "close",
     "remove_dotnet"}

\* C1: validation fails exactly when one of commit_sha / repository is set and
\* the other is not; when it fails the run stops there: no installer call, no
\* query, and the output file is as it was when the run began.
C1_ValidationGate ==
    /\ calls # <<>> =>
          (Raised("validate") <=> ((CommitSet /\ ~RepositorySet) \/ (~CommitSet /\ RepositorySet)))
    /\ Raised("validate") =>
          /\ pc = "failed"
          /\ OpsCalled \cap SideEffectOps = {}
          /\ out_file = start_file

C1_Witness ==
    /\ Raised("validate")
    /\ CommitSet /\ ~RepositorySet
    /\ out_file = StaleFile

C1_WitnessAccepted ==
    /\ pc = "done"
    /\ CommitSet /\ RepositorySet

StageOf(c) ==
    IF c.op = "raise"
    THEN CASE c.arg = <<"validate">> -> 1
           [] c.arg = <<"install">> -> 2
           [] c.arg = <<"introspect">> -> 3
           [] c.arg \in {<<"resolve">>, <<"emit">>} -> 4
           [] OTHER -> 5
    ELSE CASE c.op = "validate" -> 1
           [] c.op = "install" -> 2
           [] c.op = "info" -> 3
           [] c.op = "remove_dotnet" -> 5
           [] OTHER -> 4

\* C2: the operations of a run occur in stage order validate, install,
\* introspect, resolve+emit, cleanup; a failure is the last thing a run does,
\* so no later stage (cleanup included) follows it.
C2_LinearStages ==
    /\ \A i \in 1..(Len(calls) - 1) : StageOf(calls[i]) <= StageOf(calls[i + 1])
    /\ \A i \in 1..Len(calls) : calls[i].op = "raise" =>
          /\ i = Len(calls)
          /\ i > 1
          /\ StageOf(calls[i - 1]) = StageOf(calls[i])
    /\ (pc = "failed") <=> (calls # <<>> /\ LastCall.op = "raise")
    /\ \A op \in {"validate", "install", "info", "remove_dotnet"} :
          Cardinality({k \in 1..Len(calls) : calls[k].op = op}) <= 1
    /\ pc \in {"loop", "done"} =>
          /\ Len(calls) >= 3
          /\ <<calls[1].op, calls[2].op, calls[3].op>> = <<"validate", "install", "info">>

C2_Witness ==
    /\ pc = "failed"
    /\ LastCall = Raise("emit")
    /\ platform = "linux"
    /\ remove_dotnet
    /\ idx = Len(target_framework_monikers)

\* C3: with an explicit commit_sha, a core moniker's file carries that value
\* verbatim as PERFLAB_HASH, and the run never asks the SDK for its commit.
C3_ExplicitCommit ==
    CommitSet =>
        /\ "get_dotnet_sdk" \notin OpsCalled
        /\ ValuesOf(out_file, "PERFLAB_HASH") \subseteq {args.commit_sha}

C3_Witness ==
    /\ CommitSet
    /\ pc = "done"
    /\ ValuesOf(out_file, "PERFLAB_HASH") = {args.commit_sha}

\* C3 (second half): the SDK commit query is made when commit_sha is absent.
C3_WitnessQueried ==
    /\ ~CommitSet
    /\ "get_dotnet_sdk" \in OpsCalled

JustEmitted == pc \in {"loop", "done"} /\ idx > 1
LastEmittedMoniker == target_framework_monikers[idx - 1]
HasCorePrefix(m) == Len(m) >= 1 /\ m[1] = "netcoreapp"
QueriesFor(m) ==
    {k \in 1..Len(calls) :
        /\ calls[k].op \in {"get_target_framework_moniker", "get_dotnet_version",
                            "get_dotnet_sdk", "get_commit_date", "get_branch"}
        /\ calls[k].arg \in {m, GetTargetFrameworkMoniker(m)}}

\* C4: once the loop has emitted for a moniker without the core prefix, the
\* file holds exactly PERFLAB_INLAB=0 and PERFLAB_TARGET_FRAMEWORKS=<moniker>,
\* and no metadata query was made for that moniker.
C4_ReducedSet ==
    (JustEmitted /\ ~HasCorePrefix(LastEmittedMoniker)) =>
        /\ HoldsExactly(out_file, ReducedNames)
        /\ ValuesOf(out_file, "PERFLAB_INLAB") = {<<"0">>}
        /\ ValuesOf(out_file, "PERFLAB_TARGET_FRAMEWORKS") = {LastEmittedMoniker}
        /\ QueriesFor(LastEmittedMoniker) = {}

C4_Witness ==
    /\ JustEmitted
    /\ idx = 3
    /\ ~HasCorePrefix(LastEmittedMoniker)
    /\ HasCorePrefix(target_framework_monikers[1])

HeadSha == <<"1a2b3c">>

\* C5: PERFLAB_PERFHASH is the HEAD commit of the performance repository when
\* --get-perf-hash is set and the --perf-hash argument otherwise, whichever
\* moniker the file was written for.
C5_PerfHash ==
    /\ ValuesOf(out_file, "PERFLAB_PERFHASH") \subseteq
          {IF args.get_perf_hash THEN HeadSha ELSE <<"testSha">>}
    /\ (JustEmitted /\ HasCorePrefix(LastEmittedMoniker)) =>
          Occurrences(out_file, "PERFLAB_PERFHASH") = 1

C5_Witness ==
    /\ args.get_perf_hash
    /\ JustEmitted
    /\ idx = 3
    /\ HasCorePrefix(target_framework_monikers[1])
    /\ HasCorePrefix(target_framework_monikers[2])
    /\ target_framework_monikers[1] # target_framework_monikers[2]
    /\ ValuesOf(out_file, "PERFLAB_PERFHASH") = {HeadSha}

C5_WitnessDefault ==
    /\ ~args.get_perf_hash
    /\ ValuesOf(out_file, "PERFLAB_PERFHASH") = {<<"testSha">>}

\* the tokens of --build-configs joined by ';' in argument order
ExpectedConfigs ==
    LET n == Len(args.build_configs)
    IN  [k \in 1..(IF n = 0 THEN 0 ELSE 2 * n - 1) |->
            IF k % 2 = 1 THEN args.build_configs[(k + 1) \div 2][1] ELSE ";"]
Quoted(v) == <<"\"">> \o v \o <<"\"">>
CoreFile == JustEmitted /\ HasCorePrefix(LastEmittedMoniker)

\* C6 as stated: a single PERFLAB_CONFIGS assignment, the tokens joined by ';'
\* in argument order, in double quotes on the Windows path ('set') and bare on
\* the POSIX path ('export').
C6_QuotedOnWindows ==
    CoreFile =>
        /\ Occurrences(out_file, "PERFLAB_CONFIGS") = 1
        /\ KeywordsIn(out_file) = {IF platform = "win32" THEN "set " ELSE "export "}
        /\ ValuesOf(out_file, "PERFLAB_CONFIGS") =
              {IF platform = "win32" THEN Quoted(ExpectedConfigs) ELSE ExpectedConfigs}

\* C6 amended: a single PERFLAB_CONFIGS assignment, the tokens joined by ';'
\* in argument order, bare on the Windows path ('set') and in double quotes on
\* the POSIX path ('export').
C6_QuotedOnPosix ==
    CoreFile =>
        /\ Occurrences(out_file, "PERFLAB_CONFIGS") = 1
        /\ KeywordsIn(out_file) = {IF platform = "win32" THEN "set " ELSE "export "}
        /\ ValuesOf(out_file, "PERFLAB_CONFIGS") =
              {IF platform = "win32" THEN ExpectedConfigs ELSE Quoted(ExpectedConfigs)}

C6_Witness ==
    /\ CoreFile
    /\ platform = "linux"
    /\ args.build_configs = << <<"a=1">>, <<"b=2">> >>
    /\ ValuesOf(out_file, "PERFLAB_CONFIGS") = {<<"\"", "a=1", ";", "b=2", "\"">>}

RemoveCalls == {k \in 1..Len(calls) : calls[k].op = "remove_dotnet"}
LegacyProcessed ==
    \E k \in 1..Len(target_framework_monikers) :
        target_framework_monikers[k] \in {<<"netcoreapp", "3.0">>, <<"netcoreapp", "5.0">>}
EmissionOver == pc = "done" \/ (pc = "failed" /\ LastCall = Raise("cleanup"))

\* C7: the toolchain is removed exactly when the loop ended without failure,
\* the platform is not Windows and a legacy moniker (netcoreapp3.0 or
\* netcoreapp5.0) was processed; then once, after the last write to the file.
C7_Removal ==
    /\ EmissionOver => ((RemoveCalls # {}) <=> (platform # "win32" /\ LegacyProcessed))
    /\ ~EmissionOver => RemoveCalls = {}
    /\ Cardinality(RemoveCalls) <= 1
    /\ \A r \in RemoveCalls : \A k \in 1..Len(calls) :
          calls[k].op \in {"open", "close"} => k < r
    /\ \A r \in RemoveCalls :
          Cardinality({k \in 1..Len(calls) : calls[k].op = "close"})
              = Len(target_framework_monikers)

C7_Witness ==
    /\ pc = "done"
    /\ RemoveCalls # {}
    /\ target_framework_monikers[Len(target_framework_monikers)] = <<"netcoreapp", "5.0">>
    /\ target_framework_monikers[1] = <<"net461">>

C7_WitnessWindows ==
    /\ pc = "done"
    /\ platform = "win32"
    /\ LegacyProcessed
    /\ RemoveCalls = {}

\* C8: a successful run replaces whatever the output file held, and a second
\* run with the same arguments and answers leaves the same file as the first.
C8_Idempotent ==
    pc = "done" =>
        /\ out_file.exists
        /\ \A k \in 1..Len(out_file.content) : out_file.content[k] # "stale"
        /\ run > 1 => out_file = start_file

C8_Witness ==
    /\ pc = "done"
    /\ run = 2
    /\ out_file = start_file
    /\ NamesIn(out_file) = CoreNames

C8_WitnessOverwrite ==
    /\ pc = "done"
    /\ run = 1
    /\ start_file = StaleFile

HoldsSetOf(m) ==
    /\ HoldsExactly(out_file, IF HasCorePrefix(m) THEN CoreNames ELSE ReducedNames)
    /\ ValuesOf(out_file, "PERFLAB_TARGET_FRAMEWORKS") = {m}
    /\ ValuesOf(out_file, "PERFLAB_INLAB") = {IF HasCorePrefix(m) THEN <<"1">> ELSE <<"0">>}
FailedResolving == pc = "failed" /\ LastCall = Raise("resolve") /\ idx >= 1

\* C9: the file is opened (truncated) once per moniker, so after a successful
\* run it holds the variable set of the last moniker only; a run that fails
\* while resolving moniker k leaves the set of moniker k-1, or the file as it
\* was when k is the first.
C9_LastMonikerOnly ==
    /\ pc = "done" =>
          /\ HoldsSetOf(target_framework_monikers[Len(target_framework_monikers)])
          /\ Cardinality({k \in 1..Len(calls) : calls[k].op = "open"})
                = Len(target_framework_monikers)
    /\ FailedResolving =>
          IF idx = 1 THEN out_file = start_file
          ELSE HoldsSetOf(target_framework_monikers[idx - 1])

C9_Witness ==
    /\ pc = "done"
    /\ Len(target_framework_monikers) = 2
    /\ HasCorePrefix(target_framework_monikers[1])
    /\ ~HasCorePrefix(target_framework_monikers[2])
    /\ NamesIn(out_file) = ReducedNames

C9_WitnessFailed ==
    /\ FailedResolving
    /\ idx = 2
    /\ ~HasCorePrefix(target_framework_monikers[1])
    /\ NamesIn(out_file) = ReducedNames

ToolchainArchs ==
    {calls[k].arg : k \in {j \in 1..Len(calls) : calls[j].op \in {"install", "remove_dotnet"}}}

\* C10: for arm64 the toolchain is installed and removed for x64 while
\* PERFLAB_BUILDARCH stays arm64; for any other architecture all three are
\* the requested one.
C10_Arm64Substitution ==
    /\ ToolchainArchs \subseteq
          {IF args.architecture = "arm64" THEN <<"x64">> ELSE <<args.architecture>>}
    /\ ValuesOf(out_file, "PERFLAB_BUILDARCH") \subseteq {<<args.architecture>>}

C10_Witness ==
    /\ pc = "done"
    /\ args.architecture = "arm64"
    /\ RemoveCalls # {}
    /\ calls[2] = Call("install", <<"x64">>)
    /\ LastCall = Call("remove_dotnet", <<"x64">>)
    /\ ValuesOf(out_file, "PERFLAB_BUILDARCH") = {<<"arm64">>}

C10_WitnessOther ==
    /\ pc = "done"
    /\ args.architecture = "x64"
    /\ RemoveCalls # {}
    /\ ValuesOf(out_file, "PERFLAB_BUILDARCH") = {<<"x64">>}

====
